---- MODULE Spec2Model ----
(***************************************************************************)
(* Model of the realtime core of server.js: the socket.io handshake        *)
(* middleware, the presence map usuarios_conectados, and the handlers for  *)
(* 'connection', 'send_message', 'typing', 'stop_typing' and 'disconnect'. *)
(*                                                                         *)
(* Node runs every handler on one event loop, so a handler runs atomically *)
(* up to its next `await`.  Each action below is one such run: from the    *)
(* arrival of an event to the first await, or from the reply of the Store  *)
(* to the end of the handler.  The Store (supabase) is an external         *)
(* collaborator: each call ends with a row/ok result, with an {error}      *)
(* result, or with a rejected promise.                                     *)
(*                                                                         *)
(* lastRun observes the run that led to the current state: which handler   *)
(* ran, on which socket, and the events it emitted with the sockets that   *)
(* received each.  Every run of every handler is the lastRun of the state  *)
(* it ends in, so a property of all runs is an invariant over lastRun.     *)
(***************************************************************************)
EXTENDS Integers, Sequences, FiniteSets, TLC

\* ------------------------------------------------------------------ bounds
MaxConns == 2
MaxSends == 1
MaxRequests == 2

\* ------------------------------------------------------------ value spaces
Users == {"u1", "u2"}
Sockets == 1..MaxConns
Undefined == "undefined"
Texts == {"hola"}

EmailOf(u) == IF u = "u1" THEN "u1@mail" ELSE "u2@mail"

JWT_SECRET == "secret"

\* A JavaScript value that is an object where one is expected, or undefined.
NoValue == [undefined |-> TRUE]

\* Handshake tokens a client can present: none, a string that is no JWT, or
\* a JWT whose payload is the one jwt.sign builds (lines 174-181; its
\* username field is read by no handler), signed with the server's secret or
\* another one, expired or not.
Garbage == [malformed |-> TRUE]
Jwt(u, sig, expired) ==
  [userId |-> u, email |-> EmailOf(u), sig |-> sig, expired |-> expired]
Tokens ==
  { NoValue, Garbage,
    Jwt("u1", JWT_SECRET, TRUE), Jwt("u2", "other", FALSE),
    Jwt("u1", JWT_SECRET, FALSE), Jwt("u2", JWT_SECRET, FALSE) }

\* Payloads of send_message: the object the client sends, or nothing at all.
Payloads == [receiver_id : Users, text : Texts] \cup {NoValue}
RelayPayloads == [receiver_id : Users]

\* Payloads of send_message that lack a field: the destructuring of line
\* 696 leaves the variable undefined.
MalformedPayloads ==
  { [receiver_id |-> Undefined, text |-> "hola"],
    [receiver_id |-> "u1", text |-> Undefined] }

\* Payloads in which the client also names a sender: the handlers read
\* receiver_id and text (lines 696, 742, 751) and no other field.
SpoofedPayloads == [receiver_id : Users, text : Texts, remitente_id : Users]
SpoofedRelayPayloads == [receiver_id : Users, user_id : Users]

StoreOutcomes == {"ok", "error", "throw"}

\* What a Store call of an HTTP handler ends with: the result object with
\* its data, the result object with an error of the Store, or a rejection.
\* A message is the sequence of the pieces it is put together from.
ReplyOk == [kind |-> "ok", code |-> "", message |-> << >>]
ReplyError ==
  [kind |-> "error", code |-> "XX000", message |-> << "upstream failure" >>]
ReplyThrow == [kind |-> "throw", code |-> "", message |-> << "fetch failed" >>]
Replies == {ReplyOk, ReplyError, ReplyThrow}

\* A query that finds no row, and the errors supabase.auth.admin.createUser
\* gives for a known email and for a weak password.
ReplyNone == [kind |-> "none", code |-> "", message |-> << >>]
ReplyEmailExists ==
  [kind |-> "error", code |-> "email_exists",
   message |-> << "A user with this email address has ", "already registered" >>]
ReplyWeakPassword ==
  [kind |-> "error", code |-> "weak_password",
   message |-> << "Password should be", " at least 6 characters" >>]
ReplySeveralRows ==
  [kind |-> "error", code |-> "PGRST116",
   message |-> << "JSON object requested, multiple (or no) rows returned" >>]
QueryReplies == Replies \cup {ReplyNone}
MaybeSingleReplies == QueryReplies \cup {ReplySeveralRows}
AuthReplies == Replies \cup {ReplyEmailExists, ReplyWeakPassword}
AllReplies == MaybeSingleReplies \cup AuthReplies

maxIntentos == 5

\* String.prototype.includes, for the pieces a message is made of.
Includes(message, piece) == \E i \in 1..Len(message) : message[i] = piece

\* Request bodies of the routes without a token: all fields, or one missing.
Credentials ==
  { [username |-> "u1", email |-> EmailOf("u1"), password |-> "secreto"],
    [username |-> EmailOf("u1"), email |-> EmailOf("u1"),
     password |-> "secreto"],
    [username |-> "u1", email |-> EmailOf("u1"), password |-> Undefined] }

\* Search terms and uploaded files: present or not.
Terms == {"u2", Undefined}
Files == {"foto.png", Undefined}

\* The ids a client can name as a contact: a user, an id of no user, none.
ContactIds == Users \cup {"nobody", Undefined}

VARIABLES
  state,                \* socket -> "none" | "rejected" | "active" | "closed"
  handshake,            \* socket -> socket.handshake.auth.token
  userId,               \* socket -> socket.userId (Undefined until set)
  listeners,            \* socket -> the handlers of lines 694-776 are attached
  markOffline,          \* socket -> the disconnect handler's Store update
  usuarios_conectados,  \* the presence Map: userId -> {socketId, email}
  mensajes,             \* Store table mensajes, rows in insertion order
  pending,              \* send_message handlers awaiting their insert
  contactos,            \* Store table contactos, rows in insertion order
  requests,             \* HTTP handlers awaiting a reply of the Store
  lastRun               \* the handler run that led to this state

vars ==
  << state, handshake, userId, listeners, markOffline, usuarios_conectados,
     mensajes, pending, contactos, requests, lastRun >>

\* What the realtime handlers never touch.
http == << contactos, requests >>

\* What the HTTP handlers never touch.
realtime ==
  << state, handshake, userId, listeners, markOffline, usuarios_conectados,
     pending >>

\* -------------------------------------------------------------------- Map
\* A Map is a function whose domain is its key set.
MapSet_keepFirst(map, key, value) ==
  IF key \in DOMAIN map
    THEN map
    ELSE [k \in DOMAIN map \cup {key} |-> IF k = key THEN value ELSE map[k]]

\* Map.prototype.set: adds the key, or replaces the value of a key it has.
MapSet(map, key, value) ==
  [k \in DOMAIN map \cup {key} |-> IF k = key THEN value ELSE map[k]]

\* An unregister that is not idempotent: it removes the entry of a key the
\* map has, and records a closed entry for a key the map has not.
MapDelete_toggle(map, key) ==
  IF key \in DOMAIN map
    THEN [k \in DOMAIN map \ {key} |-> map[k]]
    ELSE [k \in DOMAIN map \cup {key} |->
            IF k = key THEN [socketId |-> 0, email |-> EmailOf(key)]
            ELSE map[k]]

\* Map.prototype.delete: removes the key if the map has it, and is a no-op
\* otherwise.
MapDelete(map, key) == [k \in DOMAIN map \ {key} |-> map[k]]
MapHas(map, key) == key \in DOMAIN map

\* -------------------------------------------------------------- token codec
AuthFail == [thrown |-> TRUE]

jwt_verify_decodeOnly(token) ==
  IF token = NoValue \/ token = Garbage
    THEN AuthFail
    ELSE [userId |-> token.userId, email |-> token.email]

\* jwt.verify(token, JWT_SECRET): throws on a missing or malformed token, on
\* a signature made with another secret and on a passed expiry; otherwise
\* returns the payload.
jwt_verify(token) ==
  IF token = NoValue \/ token = Garbage
    THEN AuthFail
    ELSE IF token.sig # JWT_SECRET \/ token.expired
      THEN AuthFail
      ELSE [userId |-> token.userId, email |-> token.email]

\* ------------------------------------------------------------- socket.io
Connected(c) == state[c] = "active"

\* socket.emit: to the socket itself, if it is still connected.
ToSelf(c) == { d \in Sockets : d = c /\ Connected(d) }

\* io.to(socketId): the room of that id holds the socket while connected.
ToRoom(socketId) == { d \in Sockets : d = socketId /\ Connected(d) }

ConnectedSockets == { d \in Sockets : Connected(d) }

BroadcastFrom_all(c, sockets) == sockets

\* socket.broadcast.emit: to every socket of the namespace except the
\* emitting one.
BroadcastFrom(c, sockets) == sockets \ {c}

\* One emit: the event, the sockets that receive it, and its payload.
Emit(ev, to, payload) == [ev |-> ev, to |-> to, payload |-> payload]

\* ------------------------------------------------------------ presence map
ListUserIds == DOMAIN usuarios_conectados
Count == Cardinality(DOMAIN usuarios_conectados)

\* Some connected socket was authenticated as user u.
HasActiveConnection(u) == \E d \in Sockets : Connected(d) /\ userId[d] = u

Init ==
  /\ state = [c \in Sockets |-> "none"]
  /\ handshake = [c \in Sockets |-> NoValue]
  /\ userId = [c \in Sockets |-> Undefined]
  /\ listeners = [c \in Sockets |-> FALSE]
  /\ markOffline = [c \in Sockets |-> "idle"]
  /\ usuarios_conectados = << >>
  /\ mensajes = << >>
  /\ pending = << >>
  /\ contactos = << >>
  /\ requests = << >>
  /\ lastRun = [handler |-> "none"]

\* Socket ids are fresh: the next connection gets the next id.
NextSocket == Cardinality({ c \in Sockets : state[c] # "none" }) + 1

\* The handler with the users_online snapshot of lines 688-691 read before
\* the usuarios_conectados.set of line 675.
ConnectionEmits_snapshotBefore(c, decoded, registry) ==
  << Emit("user_online", BroadcastFrom(c, ConnectedSockets \cup {c}),
          [user_id |-> decoded.userId, email |-> decoded.email]),
     Emit("users_online", {c},
          [count |-> Cardinality(DOMAIN usuarios_conectados),
           users |-> DOMAIN usuarios_conectados]) >>

\* What io.on('connection') emits for socket c (lines 682-691), given the
\* presence map after its own registration.  The new socket is connected.
ConnectionEmits(c, decoded, registry) ==
  << Emit("user_online", BroadcastFrom(c, ConnectedSockets \cup {c}),
          [user_id |-> decoded.userId, email |-> decoded.email]),
     Emit("users_online", {c},
          [count |-> Cardinality(DOMAIN registry),
           users |-> DOMAIN registry]) >>

\* A send_message handler that is awaiting its insert learns nothing of a
\* new connection; the model notes for it that its recipient was connected
\* at some time of the handling.
NoteConnected(u) ==
  [i \in 1..Len(pending) |->
     [pending[i] EXCEPT !.rcptActiveDuring =
        pending[i].rcptActiveDuring \/ pending[i].data.receiver_id = u]]

\* The io.use middleware and, after next(), io.on('connection') up to the
\* registration of the handlers.
Connect(token) ==
  LET c == NextSocket
      decoded == jwt_verify(token)
  IN
  /\ c \in Sockets
  /\ handshake' = [handshake EXCEPT ![c] = token]
  /\ IF decoded = AuthFail
       THEN /\ state' = [state EXCEPT ![c] = "rejected"]
            /\ lastRun' = [handler |-> "handshake", socket |-> c,
                           events |-> << >>]
            /\ UNCHANGED << userId, listeners, usuarios_conectados, pending >>
       ELSE LET registry == MapSet(usuarios_conectados, decoded.userId,
                                   [socketId |-> c, email |-> decoded.email])
            IN
            /\ state' = [state EXCEPT ![c] = "active"]
            /\ userId' = [userId EXCEPT ![c] = decoded.userId]
            /\ usuarios_conectados' = registry
            /\ listeners' = [listeners EXCEPT ![c] = TRUE]
            /\ pending' = NoteConnected(decoded.userId)
            /\ lastRun' =
                 [handler |-> "connection", socket |-> c,
                  wasOnline |-> MapHas(usuarios_conectados, decoded.userId),
                  events |-> ConnectionEmits(c, decoded, registry)]
  /\ UNCHANGED << markOffline, mensajes, http >>

\* usuarios_conectados.get(receiver_id)
Receptor(receiver_id) ==
  IF MapHas(usuarios_conectados, receiver_id)
    THEN usuarios_conectados[receiver_id]
    ELSE NoValue

\* The handler without its try/catch: the TypeError of a missing payload
\* ends it, and nothing is emitted.
SendMessage_uncaught(c, data) ==
  /\ Connected(c) /\ listeners[c]
  /\ Len(mensajes) + Len(pending) < MaxSends
  /\ IF data = NoValue
       THEN /\ lastRun' =
                 [handler |-> "send_message", socket |-> c, phase |-> "done",
                  data |-> data, outcome |-> "invalid", inserts |-> 0,
                  events |-> << >>]
            /\ UNCHANGED pending
       ELSE /\ pending' = Append(pending,
                 [socket |-> c, data |-> data, inserts |-> 1,
                  rcptActiveDuring |-> HasActiveConnection(data.receiver_id)])
            /\ lastRun' =
                 [handler |-> "send_message", socket |-> c, phase |-> "await",
                  data |-> data, events |-> << >>]
  /\ UNCHANGED << state, handshake, userId, listeners, markOffline,
                  usuarios_conectados, mensajes, http >>

\* socket.on('send_message') up to the await of the insert.  A missing
\* payload makes the destructuring of line 696 throw, which the catch turns
\* into a message_error without any Store call.  `type` keeps its default.
SendMessage(c, data) ==
  /\ Connected(c) /\ listeners[c]
  /\ Len(mensajes) + Len(pending) < MaxSends
  /\ IF data = NoValue
       THEN /\ lastRun' =
                 [handler |-> "send_message", socket |-> c, phase |-> "done",
                  data |-> data, outcome |-> "invalid", inserts |-> 0,
                  events |-> << Emit("message_error", ToSelf(c),
                                     [error |-> "Error enviando mensaje"]) >>]
            /\ UNCHANGED pending
       ELSE /\ pending' = Append(pending,
                 [socket |-> c, data |-> data, inserts |-> 1,
                  rcptActiveDuring |-> HasActiveConnection(data.receiver_id)])
            /\ lastRun' =
                 [handler |-> "send_message", socket |-> c, phase |-> "await",
                  data |-> data, events |-> << >>]
  /\ UNCHANGED << state, handshake, userId, listeners, markOffline,
                  usuarios_conectados, mensajes, http >>

\* An insert that takes the sender from the payload.
NewMensaje_fromPayload(c, data) ==
  [id |-> Len(mensajes) + 1, remitente_id |-> data.remitente_id,
   destinatario_id |-> data.receiver_id, contenido |-> data.text,
   tipo |-> "texto", leido |-> FALSE, created_at |-> Len(mensajes) + 1]

\* The row that insert(...).select().single() creates and returns.
NewMensaje(c, data) ==
  [id |-> Len(mensajes) + 1, remitente_id |-> userId[c],
   destinatario_id |-> data.receiver_id, contenido |-> data.text,
   tipo |-> "texto", leido |-> FALSE, created_at |-> Len(mensajes) + 1]

\* The handler without the `if (error)` check of line 712: on an {error}
\* result it goes on to the lookup with a null row, and `mensaje.id` throws
\* into the catch.
SendMessageEmits_noErrorCheck(c, receiver_id, outcome, mensaje) ==
  LET receptor == Receptor(receiver_id) IN
  IF outcome = "throw"
    THEN << Emit("message_error", ToSelf(c),
                 [error |-> "Error enviando mensaje"]) >>
    ELSE IF outcome = "error"
      THEN (IF receptor # NoValue
              THEN << Emit("new_message", ToRoom(receptor.socketId),
                           NoValue) >>
              ELSE << >>)
           \o << Emit("message_error", ToSelf(c),
                      [error |-> "Error enviando mensaje"]) >>
      ELSE (IF receptor # NoValue
              THEN << Emit("new_message", ToRoom(receptor.socketId),
                           mensaje) >>
              ELSE << >>)
           \o << Emit("message_sent", ToSelf(c),
                      [id |-> mensaje.id, timestamp |-> mensaje.created_at,
                       delivered |-> (receptor # NoValue)]) >>

\* The handler without the `return` of line 715: after the message_error it
\* goes on, and `mensaje.id` throws into the catch, which emits a second one.
SendMessageEmits_noReturn(c, receiver_id, outcome, mensaje) ==
  LET receptor == Receptor(receiver_id) IN
  IF outcome = "throw"
    THEN << Emit("message_error", ToSelf(c),
                 [error |-> "Error enviando mensaje"]) >>
    ELSE IF outcome = "error"
      THEN << Emit("message_error", ToSelf(c),
                   [error |-> "Error guardando mensaje"]),
              Emit("message_error", ToSelf(c),
                   [error |-> "Error enviando mensaje"]) >>
      ELSE (IF receptor # NoValue
              THEN << Emit("new_message", ToRoom(receptor.socketId),
                           mensaje) >>
              ELSE << >>)
           \o << Emit("message_sent", ToSelf(c),
                      [id |-> mensaje.id, timestamp |-> mensaje.created_at,
                       delivered |-> (receptor # NoValue)]) >>

\* The handler with a delivered flag that is always true.
SendMessageEmits_deliveredAlways(c, receiver_id, outcome, mensaje) ==
  LET receptor == Receptor(receiver_id) IN
  IF outcome = "throw"
    THEN << Emit("message_error", ToSelf(c),
                 [error |-> "Error enviando mensaje"]) >>
    ELSE IF outcome = "error"
      THEN << Emit("message_error", ToSelf(c),
                   [error |-> "Error guardando mensaje"]) >>
      ELSE (IF receptor # NoValue
              THEN << Emit("new_message", ToRoom(receptor.socketId),
                           mensaje) >>
              ELSE << >>)
           \o << Emit("message_sent", ToSelf(c),
                      [id |-> mensaje.id, timestamp |-> mensaje.created_at,
                       delivered |-> TRUE]) >>

\* What the send_message handler of socket c emits once its insert has
\* replied (lines 712-737).
SendMessageEmits(c, receiver_id, outcome, mensaje) ==
  LET receptor == Receptor(receiver_id) IN
  IF outcome = "throw"
    THEN << Emit("message_error", ToSelf(c),
                 [error |-> "Error enviando mensaje"]) >>
    ELSE IF outcome = "error"
      THEN << Emit("message_error", ToSelf(c),
                   [error |-> "Error guardando mensaje"]) >>
      ELSE (IF receptor # NoValue
              THEN << Emit("new_message", ToRoom(receptor.socketId),
                           mensaje) >>
              ELSE << >>)
           \o << Emit("message_sent", ToSelf(c),
                      [id |-> mensaje.id, timestamp |-> mensaje.created_at,
                       delivered |-> (receptor # NoValue)]) >>

Remove(seq, i) == [j \in 1..(Len(seq) - 1) |-> IF j < i THEN seq[j] ELSE seq[j + 1]]

\* The insert of the i-th awaiting handler replies and the rest of the
\* handler runs.
SendMessageResume(i, outcome) ==
  /\ i \in 1..Len(pending)
  /\ LET c == pending[i].socket
         data == pending[i].data
         mensaje == NewMensaje(c, data)
     IN
     /\ mensajes' = IF outcome = "ok" THEN Append(mensajes, mensaje)
                    ELSE mensajes
     /\ pending' = Remove(pending, i)
     /\ lastRun' =
          [handler |-> "send_message", socket |-> c, phase |-> "done",
           data |-> data, outcome |-> outcome,
           inserts |-> pending[i].inserts,
           rcptActiveDuring |-> pending[i].rcptActiveDuring,
           events |-> SendMessageEmits(c, data.receiver_id, outcome, mensaje)]
  /\ UNCHANGED << state, handshake, userId, listeners, markOffline,
                  usuarios_conectados, http >>

\* A relay that tells the sender when the recipient has no entry.
RelayEmits_reportAbsent(ev, c, data) ==
  LET receptor == Receptor(data.receiver_id) IN
  IF receptor # NoValue
    THEN << Emit(ev, ToRoom(receptor.socketId), [user_id |-> userId[c]]) >>
    ELSE << Emit("message_error", ToSelf(c),
                 [error |-> "Usuario no conectado"]) >>

\* What a typing / stop_typing handler emits (lines 741-757).
RelayEmits(ev, c, data) ==
  LET receptor == Receptor(data.receiver_id) IN
  IF receptor # NoValue
    THEN << Emit(ev, ToRoom(receptor.socketId), [user_id |-> userId[c]]) >>
    ELSE << >>

\* A typing handler that also refreshes the presence entry of its sender.
Typing_touchPresence(c, data) ==
  /\ Connected(c) /\ listeners[c]
  /\ usuarios_conectados' =
       MapSet(usuarios_conectados, userId[c],
              [socketId |-> c, email |-> EmailOf(userId[c])])
  /\ lastRun' = [handler |-> "typing", socket |-> c, data |-> data,
                 events |-> RelayEmits("user_typing", c, data)]
  /\ UNCHANGED << state, handshake, userId, listeners, markOffline,
                  mensajes, pending, http >>

\* socket.on('typing')
Typing(c, data) ==
  /\ Connected(c) /\ listeners[c]
  /\ lastRun' = [handler |-> "typing", socket |-> c, data |-> data,
                 events |-> RelayEmits("user_typing", c, data)]
  /\ UNCHANGED << state, handshake, userId, listeners, markOffline,
                  usuarios_conectados, mensajes, pending, http >>

\* socket.on('stop_typing')
StopTyping(c, data) ==
  /\ Connected(c) /\ listeners[c]
  /\ lastRun' = [handler |-> "stop_typing", socket |-> c, data |-> data,
                 events |-> RelayEmits("user_stop_typing", c, data)]
  /\ UNCHANGED << state, handshake, userId, listeners, markOffline,
                  usuarios_conectados, mensajes, pending, http >>

\* The transport of a connected socket closes: socket.io takes the socket
\* out of its rooms and runs socket.on('disconnect') up to the await of the
\* usuarios update (lines 760-767).
Disconnect(c) ==
  /\ Connected(c) /\ listeners[c]
  /\ state' = [state EXCEPT ![c] = "closed"]
  /\ markOffline' = [markOffline EXCEPT ![c] = "outstanding"]
  /\ lastRun' = [handler |-> "disconnect", socket |-> c, phase |-> "await",
                 events |-> << >>]
  /\ UNCHANGED << handshake, userId, listeners, usuarios_conectados,
                  mensajes, pending, http >>

\* What the disconnect handler emits after its await (lines 773-775).
DisconnectEmits(c) ==
  << Emit("user_offline", BroadcastFrom(c, ConnectedSockets),
          [user_id |-> userId[c]]) >>

\* The usuarios update replies and the rest of the disconnect handler runs
\* (lines 769-775).  The handler has no try/catch: a rejected await ends it
\* there, as an unhandled rejection.  An {error} result is not looked at.
DisconnectResume(c, outcome) ==
  /\ markOffline[c] = "outstanding"
  /\ markOffline' = [markOffline EXCEPT ![c] = outcome]
  /\ IF outcome = "throw"
       THEN /\ lastRun' = [handler |-> "disconnect", socket |-> c,
                           phase |-> "done", outcome |-> outcome,
                           uncaught |-> TRUE, events |-> << >>]
            /\ UNCHANGED usuarios_conectados
       ELSE /\ usuarios_conectados' = MapDelete(usuarios_conectados, userId[c])
            /\ lastRun' = [handler |-> "disconnect", socket |-> c,
                           phase |-> "done", outcome |-> outcome,
                           uncaught |-> FALSE, events |-> DisconnectEmits(c)]
  /\ UNCHANGED << state, handshake, userId, listeners, mensajes, pending,
                  http >>

\* ------------------------------------------------------------------ HTTP
\* The authenticateToken middleware: the response it ends the request
\* with, or NoValue when it calls next().
authenticateToken(token) ==
  IF token = NoValue
    THEN [status |-> 401, message |-> << "Token requerido" >>]
    ELSE IF jwt_verify(token) = AuthFail
      THEN [status |-> 403, message |-> << "Token invalido" >>]
      ELSE NoValue

\* The run of an HTTP handler that ends with a response.  replies are the
\* results of the Store calls the handler has made.
Responded(handler, req, replies, status, message, body) ==
  [handler |-> handler, phase |-> "done", req |-> req, replies |-> replies,
   status |-> status, message |-> message, body |-> body, events |-> << >>]

\* The run of an HTTP handler that ends at an await of the Store.
Awaiting(handler, req) ==
  [handler |-> handler, phase |-> "await", req |-> req, events |-> << >>]

InFlight(route) ==
  Cardinality({ k \in 1..Len(requests) : requests[k].route = route })

\* The rows of contactos with this pair, in insertion order.
ContactRows(usuario_id, contacto_id) ==
  SelectSeq(contactos,
            LAMBDA row : /\ row.usuario_id = usuario_id
                         /\ row.contacto_id = contacto_id)

\* POST /api/contacts/add up to its first await (lines 419-447).
ContactsAdd(token, contacto_id) ==
  LET h == "POST /api/contacts/add"
      auth == authenticateToken(token)
      req == [token |-> token, contacto_id |-> contacto_id]
  IN
  /\ Len(requests) < MaxRequests
  /\ Len(contactos) + InFlight("contacts/add") < MaxRequests
  /\ IF auth # NoValue
       THEN /\ lastRun' = Responded(h, req, << >>, auth.status, auth.message,
                                    NoValue)
            /\ UNCHANGED requests
       ELSE IF contacto_id = Undefined
         THEN /\ lastRun' = Responded(h, req, << >>, 400,
                               << "ID del contacto es requerido" >>, NoValue)
              /\ UNCHANGED requests
         ELSE IF jwt_verify(token).userId = contacto_id
           THEN /\ lastRun' = Responded(h, req, << >>, 400,
                                 << "No puedes agregarte a ti mismo" >>,
                                 NoValue)
                /\ UNCHANGED requests
           ELSE /\ requests' = Append(requests,
                     [route |-> "contacts/add", req |-> req,
                      userId |-> jwt_verify(token).userId,
                      step |-> "usuarios", replies |-> << >>,
                      rows |-> << >>])
                /\ lastRun' = Awaiting(h, req)
  /\ UNCHANGED << realtime, mensajes, contactos >>

\* A Store call of the k-th handler in flight, a POST /api/contacts/add,
\* replies and the handler runs to its next await or to its response
\* (lines 442-508).  The table usuarios holds a row for each of Users.  A
\* maybeSingle() that finds several rows gives an error of code PGRST116,
\* which the handler lets pass.
ContactsAddResume(k, reply) ==
  /\ k \in 1..Len(requests)
  /\ requests[k].route = "contacts/add"
  /\ LET h == "POST /api/contacts/add"
         r == requests[k]
         replies == Append(r.replies, reply)
         existing == ContactRows(r.userId, r.req.contacto_id)
         done(status, message, body) ==
           /\ requests' = Remove(requests, k)
           /\ lastRun' = Responded(h, r.req, replies, status, message, body)
         goes(step) ==
           /\ requests' = [requests EXCEPT ![k].step = step,
                                           ![k].replies = replies]
           /\ lastRun' = Awaiting(h, r.req)
     IN
     IF reply.kind = "throw"
       THEN /\ done(500, << "Error interno del servidor" >>, NoValue)
            /\ UNCHANGED contactos
       ELSE IF r.step = "usuarios"
         THEN /\ IF reply.kind = "error" \/ r.req.contacto_id \notin Users
                   THEN done(404, << "Usuario no encontrado" >>, NoValue)
                   ELSE goes("contactos")
              /\ UNCHANGED contactos
         ELSE IF r.step = "contactos"
           THEN /\ IF reply.kind = "error"
                     THEN done(500, << "Error verificando contacto" >>,
                               NoValue)
                     ELSE IF Len(existing) = 1
                       THEN done(409,
                              << "Este usuario ya esta en tus contactos" >>,
                              NoValue)
                       ELSE goes("insert")
                /\ UNCHANGED contactos
           ELSE IF reply.kind = "error"
             THEN /\ done(500, << "Error al agregar contacto" >>, NoValue)
                  /\ UNCHANGED contactos
             ELSE LET row == [usuario_id |-> r.userId,
                              contacto_id |-> r.req.contacto_id]
                  IN /\ contactos' = Append(contactos, row)
                     /\ done(200, << "Contacto ", r.req.contacto_id,
                                     " agregado exitosamente" >>, row)
  /\ UNCHANGED << realtime, mensajes >>

\* A select that asks for one direction of the conversation only.
Conversation_sentOnly(rows, userId_, otroUsuarioId) ==
  SelectSeq(rows,
            LAMBDA m : /\ m.remitente_id = userId_
                       /\ m.destinatario_id = otroUsuarioId)

\* The filter and the order of the select of lines 575-579: the rows
\* between the two users, in either direction, by created_at ascending,
\* which is the order of insertion.
Conversation(rows, userId_, otroUsuarioId) ==
  SelectSeq(rows,
            LAMBDA m : \/ /\ m.remitente_id = userId_
                          /\ m.destinatario_id = otroUsuarioId
                       \/ /\ m.remitente_id = otroUsuarioId
                          /\ m.destinatario_id = userId_)

\* The update of lines 590-595: the unread rows sent by the other user to
\* the requesting one become read.
MarkRead(rows, userId_, otroUsuarioId) ==
  [i \in 1..Len(rows) |->
     IF /\ rows[i].remitente_id = otroUsuarioId
        /\ rows[i].destinatario_id = userId_
        /\ ~rows[i].leido
       THEN [rows[i] EXCEPT !.leido = TRUE]
       ELSE rows[i]]

\* GET /api/messages/:userId up to its first await (lines 568-579).  The
\* model notes with the request how many rows the Store held when it came.
MessagesGet(token, otroUsuarioId) ==
  LET h == "GET /api/messages"
      auth == authenticateToken(token)
      req == [token |-> token, userId |-> otroUsuarioId,
              persisted |-> Len(mensajes)]
  IN
  /\ Len(requests) < MaxRequests
  /\ IF auth # NoValue
       THEN /\ lastRun' = Responded(h, req, << >>, auth.status, auth.message,
                                    NoValue)
            /\ UNCHANGED requests
       ELSE /\ requests' = Append(requests,
                 [route |-> "messages", req |-> req,
                  userId |-> jwt_verify(token).userId,
                  step |-> "select", replies |-> << >>, rows |-> << >>])
            /\ lastRun' = Awaiting(h, req)
  /\ UNCHANGED << realtime, mensajes, contactos >>

\* A Store call of the k-th handler in flight, a GET /api/messages/:userId,
\* replies and the handler runs to its next await or to its response
\* (lines 581-606).  The result of the update is not looked at.
MessagesResume(k, reply) ==
  /\ k \in 1..Len(requests)
  /\ requests[k].route = "messages"
  /\ LET h == "GET /api/messages"
         r == requests[k]
         replies == Append(r.replies, reply)
         done(status, message, body) ==
           /\ requests' = Remove(requests, k)
           /\ lastRun' = Responded(h, r.req, replies, status, message, body)
     IN
     IF reply.kind = "throw"
       THEN /\ done(500, << "Error obteniendo mensajes" >>, NoValue)
            /\ UNCHANGED mensajes
       ELSE IF r.step = "select"
         THEN /\ IF reply.kind = "error"
                   THEN done(500, << "Error obteniendo mensajes" >>, NoValue)
                   ELSE /\ requests' =
                             [requests EXCEPT
                                ![k].step = "update",
                                ![k].replies = replies,
                                ![k].rows =
                                  Conversation(mensajes, r.userId,
                                               r.req.userId)]
                        /\ lastRun' = Awaiting(h, r.req)
              /\ UNCHANGED mensajes
         ELSE /\ mensajes' = IF reply.kind = "ok"
                               THEN MarkRead(mensajes, r.userId, r.req.userId)
                               ELSE mensajes
              /\ done(200, << >>, r.rows)
  /\ UNCHANGED << realtime, contactos >>

\* GET /api/contacts (lines 360-416).  It makes one Store call and touches
\* nothing else, so the call and its reply are one step here.
ContactsList(token, reply) ==
  LET h == "GET /api/contacts"
      auth == authenticateToken(token)
      req == [token |-> token]
  IN
  /\ lastRun' =
       IF auth # NoValue
         THEN Responded(h, req, << >>, auth.status, auth.message, NoValue)
         ELSE IF reply.kind = "throw"
           THEN Responded(h, req, << reply >>, 500,
                          << "Error interno del servidor" >>, NoValue)
           ELSE IF reply.kind = "error"
             THEN Responded(h, req, << reply >>, 200, << >>,
                            << [id |-> "demo-user",
                                username |-> "Usuario Demo"] >>)
             ELSE Responded(h, req, << reply >>, 200, << >>,
                            [contactos |-> jwt_verify(token).userId])
  /\ UNCHANGED << realtime, mensajes, http >>

\* POST /api/users/search (lines 511-566), its one Store call included.
UsersSearch(token, username, reply) ==
  LET h == "POST /api/users/search"
      auth == authenticateToken(token)
      req == [token |-> token, username |-> username]
  IN
  /\ lastRun' =
       IF auth # NoValue
         THEN Responded(h, req, << >>, auth.status, auth.message, NoValue)
         ELSE IF username = Undefined
           THEN Responded(h, req, << >>, 400,
                  << "El termino de busqueda debe tener al menos 2 caracteres" >>,
                  NoValue)
           ELSE IF reply.kind = "throw"
             THEN Responded(h, req, << reply >>, 500,
                            << "Error buscando usuario" >>, NoValue)
             ELSE IF reply.kind = "error"
               THEN Responded(h, req, << reply >>, 500,
                              << "Error en la busqueda" >>, NoValue)
               ELSE IF reply.kind = "none"
                 THEN Responded(h, req, << reply >>, 200,
                                << "Usuario no encontrado" >>, NoValue)
                 ELSE Responded(h, req, << reply >>, 200, << >>,
                                [usuario |-> username])
  /\ UNCHANGED << realtime, mensajes, http >>

\* POST /api/files/upload (lines 608-653), its one Store call included.
FilesUpload(token, file, reply) ==
  LET h == "POST /api/files/upload"
      auth == authenticateToken(token)
      req == [token |-> token, file |-> file]
  IN
  /\ lastRun' =
       IF auth # NoValue
         THEN Responded(h, req, << >>, auth.status, auth.message, NoValue)
         ELSE IF file = Undefined
           THEN Responded(h, req, << >>, 400, << "No se recibio archivo" >>,
                          NoValue)
           ELSE IF reply.kind \in {"throw", "error"}
             THEN Responded(h, req, << reply >>, 500,
                            << "Error subiendo archivo" >>, NoValue)
             ELSE Responded(h, req, << reply >>, 200, << >>,
                            [fileName |-> file])
  /\ UNCHANGED << realtime, mensajes, http >>

\* POST /api/auth/login (lines 260-355), its Store calls included: the
\* lookup of the email of a username, then the sign-in, the select of the
\* profile and the update of its estado, whose replies are r[1], r[2] and
\* r[3].  The handler touches nothing but the Store's usuarios.
AuthLogin(body, lookup, r) ==
  LET h == "POST /api/auth/login"
      isEmail == body.username \in { EmailOf(u) : u \in Users }
      first == IF isEmail THEN << >> ELSE << lookup >>
      caught(replies) ==
        Responded(h, body, replies, 500,
                  << "Error interno del servidor: " >>
                    \o replies[Len(replies)].message,
                  NoValue)
  IN
  /\ lastRun' =
       IF body.username = Undefined \/ body.password = Undefined
         THEN Responded(h, body, << >>, 400,
                        << "Username y password son requeridos" >>, NoValue)
         ELSE IF ~isEmail /\ lookup.kind = "throw"
           THEN caught(first)
           ELSE IF ~isEmail /\ lookup.kind # "ok"
             THEN Responded(h, body, first, 401,
                            << "Usuario no encontrado" >>, NoValue)
             ELSE IF r[1].kind = "throw"
               THEN caught(first \o << r[1] >>)
               ELSE IF r[1].kind = "error"
                 THEN Responded(h, body, first \o << r[1] >>, 401,
                                << "Credenciales incorrectas" >>, NoValue)
                 ELSE IF r[2].kind = "throw"
                   THEN caught(first \o << r[1], r[2] >>)
                   ELSE IF r[3].kind = "throw"
                     THEN caught(first \o << r[1], r[2], r[3] >>)
                     ELSE Responded(h, body, first \o << r[1], r[2], r[3] >>,
                                    200, << "Login exitoso" >>,
                                    [usuario |-> body.username])
  /\ UNCHANGED << realtime, mensajes, http >>

\* POST /api/auth/register up to its first await (lines 64-118).  The
\* bodies sent here pass the checks of format and length of lines 79-110.
AuthRegister(body) ==
  LET h == "POST /api/auth/register" IN
  /\ Len(requests) < MaxRequests
  /\ IF \/ body.username = Undefined
        \/ body.email = Undefined
        \/ body.password = Undefined
       THEN /\ lastRun' = Responded(h, body, << >>, 400,
                 << "Username, email y password son requeridos" >>, NoValue)
            /\ UNCHANGED requests
       ELSE /\ requests' = Append(requests,
                 [route |-> "register", req |-> body, step |-> "check",
                  intentos |-> 0, replies |-> << >>])
            /\ lastRun' = Awaiting(h, body)
  /\ UNCHANGED << realtime, mensajes, contactos >>

\* The replies a Store call of a register handler can end with.
RegisterReplies(step) ==
  IF step = "createUser" THEN AuthReplies
  ELSE IF step = "insert" THEN Replies
  ELSE MaybeSingleReplies

\* A Store call of the k-th handler in flight, a POST /api/auth/register,
\* replies and the handler runs to its next await or to its response
\* (lines 119-257): the check of the email and the username, createUser,
\* up to maxIntentos selects of the profile, its insert.
AuthRegisterResume(k, reply) ==
  /\ k \in 1..Len(requests)
  /\ requests[k].route = "register"
  /\ reply \in RegisterReplies(requests[k].step)
  /\ LET h == "POST /api/auth/register"
         r == requests[k]
         replies == Append(r.replies, reply)
         done(status, message, body) ==
           /\ requests' = Remove(requests, k)
           /\ lastRun' = Responded(h, r.req, replies, status, message, body)
         goes(step, intentos) ==
           /\ requests' = [requests EXCEPT ![k].step = step,
                                           ![k].intentos = intentos,
                                           ![k].replies = replies]
           /\ lastRun' = Awaiting(h, r.req)
         registered ==
           done(200, << "Usuario registrado exitosamente" >>,
                [usuario |-> r.req.username])
     IN
     IF reply.kind = "throw"
       THEN done(500, << "Error interno del servidor" >>, NoValue)
       ELSE IF r.step = "check"
         THEN IF reply.kind = "error" /\ reply.code # "PGRST116"
                THEN done(500, << "Error verificando usuario existente" >>,
                          NoValue)
                ELSE IF reply.kind = "ok"
                  THEN done(409, << "El email ya esta registrado" >>, NoValue)
                  ELSE goes("createUser", 0)
         ELSE IF r.step = "createUser"
           THEN IF reply.kind = "error"
                  THEN IF \/ Includes(reply.message, "already registered")
                          \/ Includes(reply.message, "already exists")
                         THEN done(409, << "El email ya esta registrado" >>,
                                   NoValue)
                         ELSE IF Includes(reply.message, "Password should be")
                           THEN done(400,
                                  << "La contrasena no cumple con los requisitos minimos" >>,
                                  NoValue)
                           ELSE done(400, << "Error de registro: " >>
                                            \o reply.message, NoValue)
                  ELSE goes("select", 0)
           ELSE IF r.step = "select"
             THEN IF reply.kind = "ok"
                    THEN registered
                    ELSE IF r.intentos + 1 < maxIntentos
                      THEN goes("select", r.intentos + 1)
                      ELSE goes("insert", r.intentos + 1)
             ELSE registered
  /\ UNCHANGED << realtime, mensajes, contactos >>

\* GET / (lines 809-830) and GET /api/status (lines 832-844): both read the
\* presence map and answer at once; neither looks at a token.
Root ==
  /\ lastRun' = Responded("GET /", NoValue, << >>, 200, << >>,
                           [connected_users |-> Count])
  /\ UNCHANGED << realtime, mensajes, http >>

Status ==
  /\ lastRun' =
       Responded("GET /api/status", NoValue, << >>, 200, << >>,
                 [status |-> "online",
                  connected_users |-> Count,
                  users_list |->
                    { [userId |-> u, email |-> usuarios_conectados[u].email] :
                        u \in DOMAIN usuarios_conectados }])
  /\ UNCHANGED << realtime, mensajes, http >>

Next ==
  \/ \E token \in Tokens : Connect(token)
  \/ \E c \in Sockets, data \in Payloads : SendMessage(c, data)
  \/ \E i \in 1..MaxSends, outcome \in StoreOutcomes :
       SendMessageResume(i, outcome)
  \/ \E c \in Sockets, data \in RelayPayloads : Typing(c, data)
  \/ \E c \in Sockets, data \in RelayPayloads : StopTyping(c, data)
  \/ \E c \in Sockets : Disconnect(c)
  \/ \E c \in Sockets, outcome \in StoreOutcomes : DisconnectResume(c, outcome)
  \/ Root
  \/ Status

Spec == Init /\ [][Next]_vars

\* The HTTP facade, one request at a time: every route with its Store
\* calls and every reply each of them can end with.  The routes share
\* nothing but the tables of the Store; requests in flight together are
\* what ContactsSpec and HistorySpec run.
NextHttp ==
  \/ requests = << >> /\ \E body \in Credentials : AuthRegister(body)
  \/ \E k \in 1..MaxRequests, reply \in AllReplies :
       AuthRegisterResume(k, reply)
  \/ requests = << >> /\ \E body \in Credentials, lookup \in QueryReplies,
                             r \in [1..3 -> Replies] :
                           AuthLogin(body, lookup, r)
  \/ requests = << >> /\ \E token \in Tokens, reply \in Replies :
                           ContactsList(token, reply)
  \/ requests = << >> /\ \E token \in Tokens, contacto_id \in ContactIds :
                           ContactsAdd(token, contacto_id)
  \/ \E k \in 1..MaxRequests, reply \in Replies : ContactsAddResume(k, reply)
  \/ requests = << >> /\ \E token \in Tokens, username \in Terms,
                             reply \in QueryReplies :
                           UsersSearch(token, username, reply)
  \/ requests = << >> /\ \E token \in Tokens, otroUsuarioId \in Users :
                           MessagesGet(token, otroUsuarioId)
  \/ \E k \in 1..MaxRequests, reply \in Replies : MessagesResume(k, reply)
  \/ requests = << >> /\ \E token \in Tokens, file \in Files,
                             reply \in Replies :
                           FilesUpload(token, file, reply)
  \/ requests = << >> /\ Root
  \/ requests = << >> /\ Status

HttpSpec == Init /\ [][NextHttp]_vars

\* Messages sent over the sockets of authenticated users and read back
\* over HTTP, one history request at a time, in any interleaving with the
\* send_message handlers.
NextHistory ==
  \/ \E u \in Users : Connect(Jwt(u, JWT_SECRET, FALSE))
  \/ \E c \in Sockets, data \in Payloads : SendMessage(c, data)
  \/ \E i \in 1..MaxSends, outcome \in StoreOutcomes :
       SendMessageResume(i, outcome)
  \/ requests = << >> /\ \E token \in Tokens, otroUsuarioId \in Users :
                           MessagesGet(token, otroUsuarioId)
  \/ \E k \in 1..MaxRequests, reply \in Replies : MessagesResume(k, reply)

HistorySpec == Init /\ [][NextHistory]_vars

\* The send_message handlers of authenticated sockets with every payload a
\* client can send, whole, lacking a field or missing, while sockets
\* connect and disconnect (the presence update a disconnect awaits stays
\* outstanding here).  Every insert that a handler awaits is answered: the
\* Store call returns or throws.
NextSend ==
  \/ \E u \in Users : Connect(Jwt(u, JWT_SECRET, FALSE))
  \/ \E c \in Sockets, data \in Payloads \cup MalformedPayloads :
       SendMessage(c, data)
  \/ \E i \in 1..MaxSends, outcome \in StoreOutcomes :
       SendMessageResume(i, outcome)
  \/ \E c \in Sockets : Disconnect(c)

SendSpec ==
  /\ Init
  /\ [][NextSend]_vars
  /\ \A i \in 1..MaxSends :
       WF_vars(\E outcome \in StoreOutcomes : SendMessageResume(i, outcome))

\* Every socket handler, fed payloads in which the client names a sender
\* of its own choice, on sockets whose handshake carried a valid token.
\* The presence update of a disconnect is answered without error here, so
\* that every disconnect handler gets to its user_offline.
NextIdentity ==
  \/ \E u \in Users : Connect(Jwt(u, JWT_SECRET, FALSE))
  \/ \E c \in Sockets, data \in SpoofedPayloads : SendMessage(c, data)
  \/ \E i \in 1..MaxSends, outcome \in StoreOutcomes :
       SendMessageResume(i, outcome)
  \/ \E c \in Sockets, data \in SpoofedRelayPayloads : Typing(c, data)
  \/ \E c \in Sockets, data \in SpoofedRelayPayloads : StopTyping(c, data)
  \/ \E c \in Sockets : Disconnect(c)
  \/ \E c \in Sockets : DisconnectResume(c, "ok")

IdentitySpec == Init /\ [][NextIdentity]_vars

\* Requests to add a contact, in flight together.
NextContacts ==
  \/ \E token \in Tokens, contacto_id \in ContactIds :
       ContactsAdd(token, contacto_id)
  \/ \E k \in 1..MaxRequests, reply \in Replies : ContactsAddResume(k, reply)

ContactsSpec == Init /\ [][NextContacts]_vars

\* ================================================================ claims
\* Positions of the events named ev among those of the last run.
EventsOf(ev) ==
  { i \in 1..Len(lastRun.events) : lastRun.events[i].ev = ev }

\* The handlers that io.on('connection') runs or attaches to a socket.
SocketHandlers ==
  {"connection", "send_message", "typing", "stop_typing", "disconnect"}

\* Some event named ev among events reached a socket.
Reached(events, ev) ==
  \E k \in 1..Len(events) : events[k].ev = ev /\ events[k].to # {}

\* The last step ended a send_message handler.
SendDone == lastRun.handler = "send_message" /\ lastRun.phase = "done"

\* The last step ended a disconnect handler, or ended it by a rejection.
DisconnectDone == lastRun.handler = "disconnect" /\ lastRun.phase = "done"

\* The last step ran io.on('connection').
ConnectionDone == lastRun.handler = "connection"

\* C1: a send_message whose insert succeeds while the recipient has a
\* connected socket reports delivered=true, and a connected socket of the
\* recipient receives a new_message with the same id and content.
C1_DeliveredToOnlineRecipient ==
  (SendDone /\ lastRun.outcome = "ok"
     /\ HasActiveConnection(lastRun.data.receiver_id))
  => /\ \E i \in EventsOf("message_sent") :
          /\ lastRun.events[i].payload.delivered
          /\ \E j \in EventsOf("new_message") :
               /\ \E d \in lastRun.events[j].to :
                    Connected(d) /\ userId[d] = lastRun.data.receiver_id
               /\ lastRun.events[j].payload.id = lastRun.events[i].payload.id
               /\ lastRun.events[j].payload.contenido = lastRun.data.text

\* C2: a send_message whose insert succeeds while the recipient had no
\* connected socket at any time of the handling stores the row, reports
\* delivered=false and emits no new_message.
C2_OfflineRecipientNotDelivered ==
  (SendDone /\ lastRun.outcome = "ok" /\ ~lastRun.rcptActiveDuring)
  => /\ \E k \in 1..Len(mensajes) :
          /\ mensajes[k].remitente_id = userId[lastRun.socket]
          /\ mensajes[k].destinatario_id = lastRun.data.receiver_id
          /\ mensajes[k].contenido = lastRun.data.text
     /\ \E i \in EventsOf("message_sent") :
          ~lastRun.events[i].payload.delivered
     /\ EventsOf("new_message") = {}

\* C3: a user with a connected socket has an entry in the presence map.
C3_ActiveUserRegistered ==
  \A c \in Sockets :
    Connected(c) => MapHas(usuarios_conectados, userId[c])

\* C4: a new_message is emitted only by a send_message handler whose insert
\* has succeeded, and carries a row that is in the Store; an insert that
\* failed is followed by no new_message.
C4_PersistBeforeDeliver ==
  lastRun.handler # "none" =>
    \A i \in EventsOf("new_message") :
      /\ SendDone
      /\ lastRun.outcome = "ok"
      /\ \E k \in 1..Len(mensajes) : mensajes[k] = lastRun.events[i].payload

C4_Witness ==
  /\ SendDone
  /\ lastRun.outcome = "ok"
  /\ \E i \in EventsOf("new_message") : lastRun.events[i].to # {}

\* C5: when the insert of a send_message fails, by an {error} result or by a
\* rejection, the handler emits exactly one event, a message_error to the
\* sending socket; it emits no new_message and no message_sent, and it has
\* called insert once.
C5_InsertFailureReportedOnce ==
  (SendDone /\ lastRun.outcome \in {"error", "throw"})
  => /\ Len(lastRun.events) = 1
     /\ lastRun.events[1].ev = "message_error"
     /\ lastRun.events[1].to = ToSelf(lastRun.socket)
     /\ lastRun.inserts = 1

C5_Witness ==
  /\ SendDone
  /\ lastRun.outcome = "error"
  /\ Connected(lastRun.socket)
  /\ HasActiveConnection(lastRun.data.receiver_id)
  /\ userId[lastRun.socket] # lastRun.data.receiver_id

\* C6: no socket is closed, with its usuarios update outstanding, while the
\* presence map still holds its entry.
C6_SlotFreedBeforeStoreUpdate ==
  \A c \in Sockets :
    ~ /\ state[c] = "closed"
      /\ markOffline[c] = "outstanding"
      /\ MapHas(usuarios_conectados, userId[c])
      /\ usuarios_conectados[userId[c]].socketId = c

\* C7: a disconnect whose usuarios update fails, by an {error} result or by
\* a rejection, still removes the entry of its user, broadcasts user_offline
\* to the other connected sockets, and leaves no uncaught error.
C7_DisconnectCompletesOnStoreFailure ==
  (DisconnectDone /\ lastRun.outcome \in {"error", "throw"})
  => /\ ~MapHas(usuarios_conectados, userId[lastRun.socket])
     /\ \E i \in EventsOf("user_offline") :
          lastRun.events[i].to = ConnectedSockets \ {lastRun.socket}
     /\ ~lastRun.uncaught

\* C8: each disconnect removes its user from the key list and emits exactly
\* one user_offline of that user, to every other connected socket and not
\* to the disconnecting one.
C8_DisconnectBroadcastsOffline ==
  DisconnectDone
  => /\ userId[lastRun.socket] \notin ListUserIds
     /\ Cardinality(EventsOf("user_offline")) = 1
     /\ \A i \in EventsOf("user_offline") :
          /\ lastRun.events[i].payload.user_id = userId[lastRun.socket]
          /\ lastRun.events[i].to = ConnectedSockets \ {lastRun.socket}

\* A token that is missing, malformed, expired or signed with another secret.
InvalidToken(t) ==
  \/ t = NoValue
  \/ t = Garbage
  \/ t.expired
  \/ t.sig # JWT_SECRET

\* C9: a socket whose handshake token is missing, malformed, expired or
\* wrongly signed is rejected: it is never connected, has no handler
\* attached, is in no entry of the presence map, and no connection,
\* send_message, typing, stop_typing or disconnect handler runs for it.
C9_InvalidTokenRejected ==
  \A c \in Sockets :
    (state[c] # "none" /\ InvalidToken(handshake[c]))
    => /\ state[c] = "rejected"
       /\ ~listeners[c]
       /\ userId[c] = Undefined
       /\ \A u \in DOMAIN usuarios_conectados :
            usuarios_conectados[u].socketId # c
       /\ \A i \in 1..Len(pending) : pending[i].socket # c
       /\ (lastRun.handler \in SocketHandlers => lastRun.socket # c)
       /\ (lastRun.handler # "none"
             => \A i \in 1..Len(lastRun.events) : c \notin lastRun.events[i].to)

C9_Witness ==
  \E c, d \in Sockets :
    /\ state[c] = "rejected"
    /\ handshake[c] = Jwt("u1", JWT_SECRET, TRUE)
    /\ d > c
    /\ Connected(d)
    /\ userId[d] = "u1"

\* C10 as claimed: the connection handler broadcasts user_online to the
\* other connected sockets and not to the new one, and broadcasts none for
\* a user who had an entry in the presence map before the connect.
C10_OnlineOnlyOnTransition ==
  ConnectionDone
  => /\ \A i \in EventsOf("user_online") :
          lastRun.events[i].to = ConnectedSockets \ {lastRun.socket}
     /\ (lastRun.wasOnline => EventsOf("user_online") = {})

\* C10 as amended: every run of the connection handler broadcasts exactly
\* one user_online of its user, to every other connected socket and not to
\* the new one, also when the user had an entry before the connect.
C10_OnlineOnEveryConnect ==
  ConnectionDone
  => /\ Cardinality(EventsOf("user_online")) = 1
     /\ \A i \in EventsOf("user_online") :
          /\ lastRun.events[i].payload.user_id = userId[lastRun.socket]
          /\ lastRun.events[i].to = ConnectedSockets \ {lastRun.socket}
          /\ lastRun.socket \notin lastRun.events[i].to

C10_Witness ==
  /\ ConnectionDone
  /\ lastRun.wasOnline
  /\ \E i \in EventsOf("user_online") :
       /\ lastRun.events[i].to # {}
       /\ lastRun.socket \notin lastRun.events[i].to

\* C11: the connection handler emits exactly one users_online, to the new
\* socket alone; its users are the keys of the presence map as it is after
\* the handler's own registration, among them the new socket's user, and
\* its count is the number of those users.
C11_SnapshotAfterRegistration ==
  ConnectionDone
  => /\ Cardinality(EventsOf("users_online")) = 1
     /\ \A i \in EventsOf("users_online") :
          /\ lastRun.events[i].to = {lastRun.socket}
          /\ lastRun.events[i].payload.users = ListUserIds
          /\ userId[lastRun.socket] \in lastRun.events[i].payload.users
          /\ lastRun.events[i].payload.count =
               Cardinality(lastRun.events[i].payload.users)

C11_Witness ==
  /\ ConnectionDone
  /\ ~lastRun.wasOnline
  /\ \E i \in EventsOf("users_online") :
       /\ lastRun.events[i].payload.count = 2
       /\ lastRun.events[i].payload.users = Users

\* C12: a connection that registers a user who already has an entry leaves
\* the key set as it was, so one entry for that user and the same count,
\* and that entry holds the id of the new socket; a connection that
\* registers a user without an entry raises the count by one.
C12_LastRegistrationWins ==
  [][ lastRun'.handler = "connection"
      => LET c == lastRun'.socket
             u == userId'[c]
         IN /\ usuarios_conectados'[u].socketId = c
            /\ IF MapHas(usuarios_conectados, u)
                 THEN /\ DOMAIN usuarios_conectados' =
                           DOMAIN usuarios_conectados
                      /\ Count' = Count
                 ELSE Count' = Count + 1 ]_vars

C12_Witness ==
  /\ ConnectionDone
  /\ lastRun.wasOnline
  /\ Count = 1
  /\ usuarios_conectados[userId[lastRun.socket]].socketId = lastRun.socket
  /\ \E d \in Sockets :
       /\ d # lastRun.socket
       /\ Connected(d)
       /\ userId[d] = userId[lastRun.socket]

C14_SameSenderOrderPreserved ==
  [][ ~ /\ lastRun.handler = "typing"
        /\ Reached(lastRun.events, "user_typing")
        /\ \E i \in 1..Len(pending) :
             /\ pending[i].socket = lastRun.socket
             /\ pending[i].data.receiver_id = lastRun.data.receiver_id
             /\ pending' = Remove(pending, i)
        /\ lastRun'.handler = "send_message"
        /\ lastRun'.phase = "done"
        /\ lastRun'.socket = lastRun.socket
        /\ lastRun'.data.receiver_id = lastRun.data.receiver_id
        /\ Reached(lastRun'.events, "new_message") ]_vars

\* C15: a typing or stop_typing handler whose recipient has an entry emits
\* exactly one user_typing or user_stop_typing, carrying the userId of the
\* sending socket, to the socket of that entry; without an entry it emits
\* nothing; in both cases it calls no Store operation and changes neither
\* the sockets, nor the presence map, nor the Store.
C15_TypingIsPureRelay ==
  [][ lastRun'.handler \in {"typing", "stop_typing"}
      => LET c == lastRun'.socket
             rid == lastRun'.data.receiver_id
             out == IF lastRun'.handler = "typing"
                      THEN "user_typing" ELSE "user_stop_typing"
         IN /\ IF MapHas(usuarios_conectados, rid)
                 THEN /\ Len(lastRun'.events) = 1
                      /\ lastRun'.events[1].ev = out
                      /\ lastRun'.events[1].payload = [user_id |-> userId[c]]
                      /\ lastRun'.events[1].to =
                           ToRoom(usuarios_conectados[rid].socketId)
                 ELSE lastRun'.events = << >>
            /\ UNCHANGED << state, handshake, userId, listeners, markOffline,
                            usuarios_conectados, mensajes, pending,
                            contactos, requests >> ]_vars

C15_Witness ==
  /\ lastRun.handler = "stop_typing"
  /\ Len(lastRun.events) = 1
  /\ lastRun.events[1].ev = "user_stop_typing"
  /\ \E d \in lastRun.events[1].to :
       /\ d # lastRun.socket
       /\ userId[d] = lastRun.data.receiver_id
       /\ userId[d] # userId[lastRun.socket]

\* C18: a send_message handler whose insert succeeded emits exactly one
\* message_sent and no message_error; the message_sent goes to the sending
\* socket, its delivered flag tells whether the presence map holds an entry
\* of the recipient when the handler looks it up after the insert, and the
\* handler emits a new_message, one, exactly when the flag is true.
C18_DeliveredFlagIsLookupResult ==
  (SendDone /\ lastRun.outcome = "ok")
  => /\ Cardinality(EventsOf("message_sent")) = 1
     /\ EventsOf("message_error") = {}
     /\ Cardinality(EventsOf("new_message")) <= 1
     /\ \A i \in EventsOf("message_sent") :
          /\ lastRun.events[i].to = ToSelf(lastRun.socket)
          /\ lastRun.events[i].payload.delivered
               = MapHas(usuarios_conectados, lastRun.data.receiver_id)
          /\ lastRun.events[i].payload.delivered
               <=> EventsOf("new_message") # {}

C18_Witness ==
  /\ SendDone
  /\ lastRun.outcome = "ok"
  /\ lastRun.rcptActiveDuring
  /\ Connected(lastRun.socket)
  /\ \E i \in EventsOf("message_sent") :
       /\ ~lastRun.events[i].payload.delivered
       /\ lastRun.events[i].to = {lastRun.socket}

\* C20: only a connection handler or a disconnect handler changes the
\* presence map: every send_message, typing and stop_typing handler, ended
\* well or with a message_error, and every HTTP handler leaves it as it
\* was, and a send_message handler leaves every socket in its state.
C20_OnlyConnectAndDisconnectChangePresence ==
  [][ /\ lastRun'.handler \notin {"connection", "disconnect"}
         => usuarios_conectados' = usuarios_conectados
      /\ lastRun'.handler = "send_message" => state' = state ]_vars

C20_Witness ==
  /\ SendDone
  /\ EventsOf("message_error") # {}
  /\ Connected(lastRun.socket)
  /\ MapHas(usuarios_conectados, userId[lastRun.socket])
  /\ usuarios_conectados[userId[lastRun.socket]].socketId = lastRun.socket

\* The last step ended a GET /api/messages/:userId with the history.
MessagesDone ==
  /\ lastRun.handler = "GET /api/messages"
  /\ lastRun.phase = "done"
  /\ lastRun.status = 200

\* Row m is of the conversation of users a and b.
Between(m, a, b) ==
  \/ m.remitente_id = a /\ m.destinatario_id = b
  \/ m.remitente_id = b /\ m.destinatario_id = a

\* The history of a fetch holds, oldest first, rows of the Store of the
\* conversation of the two users, among them every row persisted before the
\* request came.
HistoryComplete(run, rows) ==
  LET me == jwt_verify(run.req.token).userId
      otro == run.req.userId
  IN /\ \A k \in 1..run.req.persisted :
          Between(rows[k], me, otro)
            => \E i \in 1..Len(run.body) : run.body[i].id = k
     /\ \A i \in 1..Len(run.body) :
          /\ run.body[i].id \in 1..Len(rows)
          /\ Between(run.body[i], me, otro)
          /\ run.body[i] =
               [rows[run.body[i].id] EXCEPT !.leido = run.body[i].leido]
     /\ \A i, j \in 1..Len(run.body) :
          i < j => run.body[i].created_at < run.body[j].created_at

StoreRoutes ==
  { "POST /api/auth/register", "POST /api/auth/login", "GET /api/contacts",
    "POST /api/contacts/add", "POST /api/users/search", "GET /api/messages",
    "POST /api/files/upload" }

\* C17: an HTTP handler that has met a failure of the Store, an {error}
\* result or a rejection, answers with status 500 and a message that holds
\* no piece of the Store's error text.
C17_StoreFailureIs500Generic ==
  ( /\ lastRun.handler \in StoreRoutes
    /\ lastRun.phase = "done"
    /\ \E i \in 1..Len(lastRun.replies) :
         lastRun.replies[i] \in {ReplyError, ReplyThrow} )
  => /\ lastRun.status = 500
     /\ \A i \in 1..Len(lastRun.replies), j \in 1..Len(lastRun.message) :
          ~Includes(lastRun.replies[i].message, lastRun.message[j])

\* C19: the Store never holds two rows of contactos with the same pair
\* (usuario_id, contacto_id), whatever way the requests to add a contact
\* interleave, and a request that ends with 409 has inserted nothing.
C19_ContactsDeduplicated ==
  /\ \A i, j \in 1..Len(contactos) : contactos[i] = contactos[j] => i = j
  /\ ( /\ lastRun.handler = "POST /api/contacts/add"
       /\ lastRun.phase = "done"
       /\ lastRun.status = 409 )
     => lastRun.body = NoValue

\* C21: every entry of the presence map names a socket that is connected
\* and was authenticated as the user of the entry, and an event emitted to
\* the socket of a looked-up entry reaches no socket of another user.
C21_EntriesNameLiveSocketOfUser ==
  /\ \A u \in DOMAIN usuarios_conectados :
       /\ Connected(usuarios_conectados[u].socketId)
       /\ userId[usuarios_conectados[u].socketId] = u
  /\ lastRun.handler \in {"send_message", "typing", "stop_typing"}
       => \A i \in EventsOf("new_message") \cup EventsOf("user_typing")
                     \cup EventsOf("user_stop_typing") :
            \A d \in lastRun.events[i].to :
              userId[d] = lastRun.data.receiver_id

\* The responses to the sender among the events of the last run.
Responses == EventsOf("message_sent") \cup EventsOf("message_error")

\* C22: a send_message handler emits nothing before its insert is answered
\* and ends with exactly one response, a message_sent or a message_error,
\* emitted to the sending socket, also for a payload that is missing or
\* lacks a field; and a socket with a handler awaiting its insert gets to
\* the end of a send_message handler.
C22_ExactlyOneResponse ==
  /\ [](lastRun.handler = "send_message"
          => IF lastRun.phase = "await"
               THEN lastRun.events = << >>
               ELSE /\ Cardinality(Responses) = 1
                    /\ \A i \in Responses :
                         lastRun.events[i].to = ToSelf(lastRun.socket))
  /\ \A c \in Sockets :
       (\E i \in 1..Len(pending) : pending[i].socket = c)
       ~> (SendDone /\ lastRun.socket = c)

C22_Witness ==
  /\ SendDone
  /\ lastRun.data \in MalformedPayloads
  /\ lastRun.outcome = "ok"
  /\ Cardinality(EventsOf("message_sent")) = 1
  /\ \A i \in EventsOf("message_sent") :
       lastRun.events[i].to = {lastRun.socket}

\* The identity that the token of the handshake of socket c was verified
\* to carry.
TokenUserId(c) == jwt_verify(handshake[c]).userId

\* The events of the last run that carry a user_id.
IdentityEvents ==
  EventsOf("user_typing") \cup EventsOf("user_stop_typing")
    \cup EventsOf("user_online") \cup EventsOf("user_offline")

\* C23: the identity of an accepted socket is the userId of the token
\* verified at its handshake and never changes afterwards; the
\* remitente_id of the row a send_message persists, and the user_id of
\* every user_typing, user_stop_typing, user_online and user_offline, is
\* that identity, whatever sender the payload names.
C23_SenderIdentityFromToken ==
  /\ [](/\ \A c \in Sockets :
            state[c] \in {"active", "closed"} => userId[c] = TokenUserId(c)
        /\ SendDone /\ lastRun.outcome = "ok"
             => mensajes[Len(mensajes)].remitente_id
                  = TokenUserId(lastRun.socket)
        /\ lastRun.handler \in SocketHandlers
             => \A i \in IdentityEvents :
                  lastRun.events[i].payload.user_id
                    = TokenUserId(lastRun.socket))
  /\ [][\A c \in Sockets :
         state[c] \in {"active", "closed"}
           => userId'[c] = userId[c] /\ handshake'[c] = handshake[c]]_vars

C23_Witness ==
  /\ SendDone /\ lastRun.outcome = "ok"
  /\ lastRun.data.remitente_id # userId[lastRun.socket]
  /\ mensajes[Len(mensajes)].remitente_id = userId[lastRun.socket]
====
